---- MODULE Spec2Model ----
(***************************************************************************)
(* Model of WebScraper (src/main.py): the BFS crawl loop, the robots.txt   *)
(* cache, the URL filters, the scope guard and the per-domain rate limiter.*)
(* The network is the environment: the web (pages and their anchors), the  *)
(* robots.txt of every domain and the outcome and duration of each request.*)
(***************************************************************************)
EXTENDS Integers, Sequences, FiniteSets, TLC

VARIABLES
    start_url, allow_exit, external_links_depth, max_depth, delay,
    respect_robots, exclude_patterns, include_patterns,
    visited_urls, scraped_data, max_external_hops, current_domains,
    robots_cache, domain_delays,
    queue, since_last_request, current, pc,
    robots_net,
    robots_requests, hop_log, discovered, requests, enqueued, seed_check,
    since_last_fetch, last, rate_limited, main_done

config == <<start_url, allow_exit, external_links_depth, max_depth, delay,
            respect_robots, exclude_patterns, include_patterns, robots_net>>
session == <<max_external_hops, current_domains, robots_cache, domain_delays,
             robots_requests, hop_log, discovered>>
clocks == <<since_last_request, since_last_fetch>>
vars == <<config, session, visited_urls, scraped_data, queue, clocks,
          current, pc, requests, enqueued, seed_check, last, rate_limited,
          main_done>>

----------------------------------------------------------------------------
(* Bounds of the explored configurations and of the environment.           *)
MaxDepthCfg == 2
MaxExternalDepth == 1

(* Program constants.                                                      *)
ExtractLimit == 50
BackoffFactor == 3

----------------------------------------------------------------------------
(* URLs: netloc, path, query, fragment (all crawled URLs share the scheme). *)
Url(n, p, q, f) == [netloc |-> n, path |-> p, query |-> q, fragment |-> f]

Domains == {"a", "b", "c"}

(* An anchor's href: absolute (netloc set), relative (netloc empty), or a   *)
(* reference that urljoin rejects with ValueError ("http://[bad").          *)
MalformedHref == Url("[", "", "", "")

RECURSIVE Repeat(_, _)
Repeat(x, n) == IF n = 0 THEN <<>> ELSE <<x>> \o Repeat(x, n - 1)

(* The web: the anchors of the page served for a netloc and path, in        *)
(* document order.                                                          *)
Page(u) ==
    CASE u.netloc = "a" /\ u.path = "/" ->
            << Url("", "/about", "", ""), Url("", "/login", "", ""),
               Url("b", "/", "", ""), Url("c", "/x", "", ""),
               Url("", "/about", "", "team"), Url("", "/bad", "", "") >>
      [] u.netloc = "a" /\ u.path = "/about" ->
            << Url("", "/", "", ""), Url("b", "/", "q", ""),
               Url("", "", "", "top") >>
      [] u.netloc = "a" /\ u.path = "/login" ->
            Repeat(Url("", "/about", "", ""), ExtractLimit) \o <<MalformedHref>>
      [] u.netloc = "a" /\ u.path = "/bad" ->
            << Url("", "/about", "", ""), MalformedHref, Url("", "/", "", "") >>
      [] u.netloc = "b" /\ u.path = "/" ->
            << Url("a", "/about", "", "f"), Url("c", "/x", "", "") >>
      [] u.netloc = "c" /\ u.path = "/x" ->
            << Url("a", "/", "", ""), MalformedHref >>
      [] OTHER -> <<>>

(* The robots.txt each domain serves for user-agent '*': disallowed paths   *)
(* and Crawl-delay (0: none declared).                                      *)
RobotsTxt(d) ==
    CASE d = "a" -> [disallow |-> {"/login"}, crawl_delay |-> 2]
      [] d = "b" -> [disallow |-> {}, crawl_delay |-> 2]
      [] OTHER   -> [disallow |-> {"/x"}, crawl_delay |-> 0]

Seeds == { Url("a", "/", "", ""), Url("a", "/", "q", ""), Url("a", "/login", "", "") }
Delays == {1, 3}
(* How long a page request may take, in the unit of the delays.             *)
Durations == {0, 1}
(* exclude and include pattern lists that are tried.                        *)
PatternChoices ==
    { [exclude |-> <<>>, include |-> <<>>],
      [exclude |-> <<"/login">>, include |-> <<>>],
      [exclude |-> <<"//b/">>, include |-> <<>>],
      [exclude |-> <<"b">>, include |-> <<>>],
      [exclude |-> <<>>, include |-> <<"/about", "//b/">>] }
(* What the request for each domain's robots.txt does.                      *)
RobotsNets ==
    { [d \in Domains |-> "200"],
      [d \in Domains |-> IF d = "a" THEN "404" ELSE "200"],
      [d \in Domains |-> IF d = "c" THEN "error" ELSE "200"] }

(* An elapsed time is only ever compared with the effective delay of its    *)
(* domain, so it is kept up to the largest value that delay can take.       *)
AgeCap(d) ==
    IF delay >= RobotsTxt(d).crawl_delay THEN delay ELSE RobotsTxt(d).crawl_delay

ScrapeOutcomes == {"ok", "429", "http_error", "non_html", "timeout",
                   "connection_error", "exception"}
LinksOutcomes == {"ok", "request_exception", "non_html", "exception"}

(* How a page request ended, as far as crawl() can tell the cases apart:    *)
(* a 200 HTML response, a 429, another content type, or an exception that   *)
(* the except clauses turn into None ([] for get_links_from_page).          *)
OutcomeClass(outcome) ==
    IF outcome \in {"ok", "429", "non_html"} THEN outcome ELSE "error"

----------------------------------------------------------------------------
(* urllib.parse helpers.                                                    *)
Netloc(u) == u.netloc

UrlJoin(base, h) ==
    IF h.netloc # "" THEN h
    ELSE IF h.path # "" THEN Url(base.netloc, h.path, h.query, h.fragment)
    ELSE IF h.query # "" THEN Url(base.netloc, base.path, h.query, h.fragment)
    ELSE Url(base.netloc, base.path, base.query, h.fragment)

CleanUrl(u) == [u EXCEPT !.fragment = "", !.query = ""]

(* The characters of the strings that make up the URLs and the patterns.    *)
Chars(str) ==
    CASE str = ""        -> <<>>
      [] str = "http://" -> <<"h", "t", "t", "p", ":", "/", "/">>
      [] str = "a"       -> <<"a">>
      [] str = "b"       -> <<"b">>
      [] str = "c"       -> <<"c">>
      [] str = "["       -> <<"[">>
      [] str = "/"       -> <<"/">>
      [] str = "/about"  -> <<"/", "a", "b", "o", "u", "t">>
      [] str = "/login"  -> <<"/", "l", "o", "g", "i", "n">>
      [] str = "/bad"    -> <<"/", "b", "a", "d">>
      [] str = "/x"      -> <<"/", "x">>
      [] str = "//b/"    -> <<"/", "/", "b", "/">>
      [] str = "q"       -> <<"q">>
      [] str = "f"       -> <<"f">>
      [] str = "team"    -> <<"t", "e", "a", "m">>
      [] str = "top"     -> <<"t", "o", "p">>

(* urlunparse: the URL as the string that the patterns are searched in.     *)
UrlString(u) ==
    Chars("http://") \o Chars(u.netloc) \o Chars(u.path)
        \o (IF u.query # "" THEN <<"?">> \o Chars(u.query) ELSE <<>>)
        \o (IF u.fragment # "" THEN <<"#">> \o Chars(u.fragment) ELSE <<>>)

(* pattern.search(url) for a pattern p without metacharacters (given to     *)
(* main, the glob with a star on either side of p): p occurs somewhere in   *)
(* the URL string.                                                          *)
Search(p, u) ==
    LET pat == Chars(p)
        str == UrlString(u)
    IN \E i \in 0..(Len(str) - Len(pat)) :
          SubSeq(str, i + 1, i + Len(pat)) = pat

----------------------------------------------------------------------------
(* The mutable session state threaded through the helpers of WebScraper.    *)
Self == [ robots_cache |-> robots_cache, domain_delays |-> domain_delays,
          max_external_hops |-> max_external_hops,
          current_domains |-> current_domains,
          robots_requests |-> robots_requests, hop_log |-> hop_log,
          discovered |-> discovered ]

Commit(s) ==
    /\ robots_cache' = s.robots_cache
    /\ domain_delays' = s.domain_delays
    /\ max_external_hops' = s.max_external_hops
    /\ current_domains' = s.current_domains
    /\ robots_requests' = s.robots_requests
    /\ hop_log' = s.hop_log
    /\ discovered' = s.discovered

GetRobotsParser_Mut(s, domain) ==
    IF ~respect_robots THEN [rp |-> "None", s |-> s]
    ELSE IF domain \in DOMAIN s.robots_cache
         THEN [rp |-> s.robots_cache[domain], s |-> s]
    ELSE LET s1 == [s EXCEPT !.robots_requests[domain] = @ + 1]
             cd == RobotsTxt(domain).crawl_delay
         IN IF robots_net[domain] = "200"
            THEN [rp |-> "rp",
                  s |-> [s1 EXCEPT
                           !.robots_cache = (domain :> "rp") @@ @,
                           !.domain_delays =
                               IF cd # 0 THEN (domain :> cd) @@ @ ELSE @]]
            ELSE [rp |-> "None", s |-> s1]

(* get_robots_parser: "rp" is a parsed robots.txt, "None" the cached        *)
(* negative result.                                                         *)
GetRobotsParser(s, domain) ==
    IF ~respect_robots THEN [rp |-> "None", s |-> s]
    ELSE IF domain \in DOMAIN s.robots_cache
         THEN [rp |-> s.robots_cache[domain], s |-> s]
    ELSE LET s1 == [s EXCEPT !.robots_requests[domain] = @ + 1]
             cd == RobotsTxt(domain).crawl_delay
         IN IF robots_net[domain] = "200"
            THEN [rp |-> "rp",
                  s |-> [s1 EXCEPT
                           !.robots_cache = (domain :> "rp") @@ @,
                           !.domain_delays =
                               IF cd # 0 THEN (domain :> cd) @@ @ ELSE @]]
            ELSE [rp |-> "None",
                  s |-> [s1 EXCEPT !.robots_cache = (domain :> "None") @@ @]]

CanFetch(s, url) ==
    IF ~respect_robots THEN [ret |-> TRUE, s |-> s]
    ELSE LET r == GetRobotsParser(s, Netloc(url))
         IN IF r.rp = "None" THEN [ret |-> TRUE, s |-> r.s]
            ELSE [ret |-> url.path \notin RobotsTxt(Netloc(url)).disallow,
                  s |-> r.s]

(* time.time() advancing by dt: every elapsed time grows, up to its cap.    *)
Elapse(age, dt) ==
    [d \in DOMAIN age |-> IF age[d] + dt > AgeCap(d) THEN AgeCap(d) ELSE age[d] + dt]

GetCrawlDelay_Mut(url) ==
    IF Netloc(url) \in DOMAIN domain_delays
    THEN domain_delays[Netloc(url)]
    ELSE delay

GetCrawlDelay(url) ==
    IF Netloc(url) \in DOMAIN domain_delays
    THEN IF delay >= domain_delays[Netloc(url)] THEN delay
         ELSE domain_delays[Netloc(url)]
    ELSE delay

Excluded(url) == \E i \in 1..Len(exclude_patterns) : Search(exclude_patterns[i], url)
Included(url) == \E i \in 1..Len(include_patterns) : Search(include_patterns[i], url)

IsValidUrl(s, url) ==
    LET c == CanFetch(s, url)
    IN IF ~c.ret THEN [ret |-> FALSE, s |-> c.s]
       ELSE IF Excluded(url) THEN [ret |-> FALSE, s |-> c.s]
       ELSE IF include_patterns # <<>> THEN [ret |-> Included(url), s |-> c.s]
       ELSE [ret |-> TRUE, s |-> c.s]

(* The external domains in the order in which a URL of theirs first reached *)
(* is_same_domain.                                                          *)
Discover(s, domain) ==
    IF \E i \in 1..Len(s.discovered) : s.discovered[i] = domain THEN s
    ELSE [s EXCEPT !.discovered = Append(@, domain)]

IsSameDomain_MutNoAdd(s0, url, site) ==
    LET domain == Netloc(url)
        s == Discover(s0, domain)
    IN IF domain = Netloc(start_url) THEN [ret |-> TRUE, s |-> s0]
       ELSE IF allow_exit
       THEN IF domain \notin s.current_domains
            THEN IF s.max_external_hops < external_links_depth
                 THEN [ret |-> TRUE,
                       s |-> [s EXCEPT !.max_external_hops = @ + 1,
                                       !.hop_log = @ \cup {[url |-> url, site |-> site]}]]
                 ELSE [ret |-> FALSE, s |-> s]
            ELSE [ret |-> TRUE, s |-> s]
       ELSE [ret |-> FALSE, s |-> s]

IsSameDomain_MutAgain(s0, url, site) ==
    LET domain == Netloc(url)
        s == Discover(s0, domain)
    IN IF domain = Netloc(start_url) THEN [ret |-> TRUE, s |-> s0]
       ELSE IF allow_exit
       THEN IF s.max_external_hops < external_links_depth
            THEN [ret |-> TRUE,
                  s |-> [s EXCEPT !.max_external_hops = @ + 1,
                                  !.current_domains = @ \cup {domain},
                                  !.hop_log = @ \cup {[url |-> url, site |-> site]}]]
            ELSE [ret |-> FALSE, s |-> s]
       ELSE [ret |-> FALSE, s |-> s]

IsSameDomain_Mut(s0, url, site) ==
    LET domain == Netloc(url)
        s == Discover(s0, domain)
    IN IF domain = Netloc(start_url) THEN [ret |-> TRUE, s |-> s0]
       ELSE IF allow_exit
       THEN IF domain \notin s.current_domains
            THEN IF s.max_external_hops <= external_links_depth
                 THEN [ret |-> TRUE,
                       s |-> [s EXCEPT !.max_external_hops = @ + 1,
                                       !.current_domains = @ \cup {domain},
                                       !.hop_log = @ \cup {[url |-> url, site |-> site]}]]
                 ELSE [ret |-> FALSE, s |-> s]
            ELSE [ret |-> TRUE, s |-> s]
       ELSE [ret |-> FALSE, s |-> s]

IsSameDomain(s0, url, site) ==
    LET domain == Netloc(url)
        s == Discover(s0, domain)
    IN IF domain = Netloc(start_url) THEN [ret |-> TRUE, s |-> s0]
       ELSE IF allow_exit
       THEN IF domain \notin s.current_domains
            THEN IF s.max_external_hops < external_links_depth
                 THEN [ret |-> TRUE,
                       s |-> [s EXCEPT !.max_external_hops = @ + 1,
                                       !.current_domains = @ \cup {domain},
                                       !.hop_log = @ \cup {[url |-> url, site |-> site]}]]
                 ELSE [ret |-> FALSE, s |-> s]
            ELSE [ret |-> TRUE, s |-> s]
       ELSE [ret |-> FALSE, s |-> s]

----------------------------------------------------------------------------
(* A for-loop over the anchors lo..hi of a page, threading the session      *)
(* state through the loop body in document order and stopping at the first  *)
(* anchor whose body raises.  The range is split in halves so that the      *)
(* evaluation stays shallow on long pages; the order of the calls is that   *)
(* of the loop.                                                             *)

(* extract_data, the body of the loop over the first 50 anchors.            *)
ExtractLink(s, url, href) ==
    IF href = MalformedHref
    THEN [raised |-> TRUE, s |-> s, links |-> <<>>]
    ELSE LET absolute_url == UrlJoin(url, href)
             d == IsSameDomain(s, absolute_url, "extract_data")
         IN [raised |-> FALSE, s |-> d.s,
             links |-> IF d.ret THEN <<absolute_url>> ELSE <<>>]

RECURSIVE ExtractLinks(_, _, _, _, _)
ExtractLinks(s, url, hrefs, lo, hi) ==
    IF lo > hi THEN [raised |-> FALSE, s |-> s, links |-> <<>>]
    ELSE IF lo = hi THEN ExtractLink(s, url, hrefs[lo])
    ELSE LET mid == (lo + hi) \div 2
             left == ExtractLinks(s, url, hrefs, lo, mid)
         IN IF left.raised THEN left
            ELSE LET right == ExtractLinks(left.s, url, hrefs, mid + 1, hi)
                 IN [raised |-> right.raised, s |-> right.s,
                     links |-> left.links \o right.links]

(* extract_data: every other field of the record is opaque here.  raised:   *)
(* urljoin rejected an href.                                                *)
ExtractData(s, url) ==
    LET all == Page(url)
        r == ExtractLinks(s, url, all, 1,
                          IF Len(all) < ExtractLimit THEN Len(all) ELSE ExtractLimit)
    IN [raised |-> r.raised, s |-> r.s,
        data |-> [url |-> url, domain |-> Netloc(url), links |-> r.links]]

(* The admission decision of get_links_from_page: is_valid_url and, only    *)
(* for a URL that passed it, is_same_domain.                                *)
Admit_MutScope(s, url, site) == IsValidUrl(s, url)

Admit_Mut(s, url, site) ==
    LET d == IsSameDomain(s, url, site)
    IN IF ~d.ret THEN d ELSE IsValidUrl(d.s, url)

Admit(s, url, site) ==
    LET v == IsValidUrl(s, url)
    IN IF ~v.ret THEN v ELSE IsSameDomain(v.s, url, site)

(* get_links_from_page, the body of the loop over all anchors.              *)
FilterLink(s, url, href) ==
    IF href = MalformedHref
    THEN [raised |-> TRUE, s |-> s, links |-> <<>>]
    ELSE LET clean_url == CleanUrl(UrlJoin(url, href))
             a == Admit(s, clean_url, "get_links_from_page")
         IN IF clean_url = url THEN [raised |-> FALSE, s |-> s, links |-> <<>>]
            ELSE [raised |-> FALSE, s |-> a.s,
                  links |-> IF a.ret THEN <<clean_url>> ELSE <<>>]

RECURSIVE FilterLinks(_, _, _, _, _)
FilterLinks(s, url, hrefs, lo, hi) ==
    IF lo > hi THEN [raised |-> FALSE, s |-> s, links |-> <<>>]
    ELSE IF lo = hi THEN FilterLink(s, url, hrefs[lo])
    ELSE LET mid == (lo + hi) \div 2
             left == FilterLinks(s, url, hrefs, lo, mid)
         IN IF left.raised THEN left
            ELSE LET right == FilterLinks(left.s, url, hrefs, mid + 1, hi)
                 IN [raised |-> right.raised, s |-> right.s,
                     links |-> left.links \o right.links]

UniqueLinks_Mut(links, seen) == links

(* Deduplicate while preserving order.                                      *)
RECURSIVE UniqueLinks(_, _)
UniqueLinks(links, seen) ==
    IF links = <<>> THEN <<>>
    ELSE IF Head(links) \in seen THEN UniqueLinks(Tail(links), seen)
    ELSE <<Head(links)>> \o UniqueLinks(Tail(links), seen \cup {Head(links)})

(* scrape_url returns the record only for a 200 response of an accepted     *)
(* content type whose extraction did not raise; None otherwise.             *)
DataReturned_Mut429(outcome, raised) == outcome \in {"ok", "429"} /\ ~raised
DataReturned_Mut(outcome, raised) == outcome \in {"ok", "non_html"} /\ ~raised
DataReturned(outcome, raised) == outcome = "ok" /\ ~raised

(* if current_url in self.visited_urls: continue                            *)
AlreadyVisited_Mut(url) ==
    \E i \in 1..Len(scraped_data) : scraped_data[i].url = url
AlreadyVisited(url) == url \in visited_urls

(* self.visited_urls.add(current_url)                                       *)
MarkVisited_Mut(url) == visited_urls
MarkVisited(url) == visited_urls \cup {url}

(* The two depth tests of crawl().                                          *)
DepthExceeded(depth) == depth > max_depth

BelowMaxDepth_Mut(depth) == depth <= max_depth
BelowMaxDepth(depth) == depth < max_depth

Enqueue_Mut(q, links, depth) ==
    LET fresh == SelectSeq(links, LAMBDA l : l \notin visited_urls)
    IN [i \in 1..Len(fresh) |-> [url |-> fresh[i], depth |-> depth + 1]] \o q

(* The for-loop of crawl() that appends the unvisited links at depth + 1.   *)
RECURSIVE Enqueue(_, _, _)
Enqueue(q, links, depth) ==
    IF links = <<>> THEN q
    ELSE Enqueue(IF Head(links) \notin visited_urls
                 THEN Append(q, [url |-> Head(links), depth |-> depth + 1])
                 ELSE q,
                 Tail(links), depth)

----------------------------------------------------------------------------
Init ==
    /\ start_url \in Seeds
    /\ allow_exit \in BOOLEAN
    /\ external_links_depth \in 0..(IF allow_exit THEN MaxExternalDepth ELSE 0)
    /\ max_depth \in 0..MaxDepthCfg
    /\ delay \in Delays
    /\ respect_robots \in BOOLEAN
    /\ \E p \in PatternChoices :
          exclude_patterns = p.exclude /\ include_patterns = p.include
    /\ robots_net \in IF respect_robots THEN RobotsNets
                      ELSE {[d \in Domains |-> "200"]}
    /\ visited_urls = {}
    /\ scraped_data = <<>>
    /\ max_external_hops = 0
    /\ current_domains = {Netloc(start_url)}
    /\ robots_cache = <<>>
    /\ domain_delays = <<>>
    /\ queue = <<>>
    /\ since_last_request = <<>>
    /\ since_last_fetch = <<>>
    /\ current = [url |-> start_url, depth |-> 0]
    /\ pc = "start"
    /\ robots_requests = [d \in Domains |-> 0]
    /\ hop_log = {}
    /\ discovered = <<>>
    /\ requests = <<>>
    /\ enqueued = {}
    /\ seed_check = "none"
    /\ last = [kind |-> "none", outcome |-> "none"]
    /\ rate_limited = {}
    /\ main_done = FALSE

(* crawl(), lines 320-348: the accessibility probe (HEAD, then GET), the    *)
(* robots check of the start URL and the creation of the queue.             *)
CrawlStart ==
    /\ pc = "start"
    /\ \E head \in {"ok", "unreliable"}, get \in {"ok", "raise"} :
         IF head = "unreliable" /\ get = "raise"
         THEN /\ seed_check' = "skipped"
              /\ pc' = "loop"
              /\ queue' = <<[url |-> start_url, depth |-> 0]>>
              /\ UNCHANGED session
         ELSE LET c == CanFetch(Self, start_url)
              IN /\ Commit(c.s)
                 /\ IF ~c.ret /\ respect_robots
                    THEN /\ seed_check' = "denied"
                         /\ pc' = "aborted"
                         /\ queue' = <<>>
                    ELSE /\ seed_check' = "allowed"
                         /\ pc' = "loop"
                         /\ queue' = <<[url |-> start_url, depth |-> 0]>>
    /\ UNCHANGED <<config, visited_urls, scraped_data, clocks,
                   current, requests, enqueued, last, rate_limited, main_done>>

(* One pass of the while loop up to the call of scrape_url: popleft, the    *)
(* three skip tests, visited_urls.add and the per-domain rate limiting.     *)
Dequeue ==
    /\ pc = "loop"
    /\ queue # <<>>
    /\ LET current_url == Head(queue).url
           depth == Head(queue).depth
           d == IsSameDomain(Self, current_url, "crawl")
           domain == Netloc(current_url)
           crawl_delay == GetCrawlDelay(current_url)
           sleep_time == IF domain \in DOMAIN since_last_request
                            /\ since_last_request[domain] < crawl_delay
                         THEN crawl_delay - since_last_request[domain]
                         ELSE 0
       IN /\ queue' = Tail(queue)
          /\ IF AlreadyVisited(current_url) \/ DepthExceeded(depth)
             THEN UNCHANGED <<session, visited_urls, clocks, current, pc>>
             ELSE /\ Commit(d.s)
                  /\ IF ~d.ret
                     THEN UNCHANGED <<visited_urls, clocks, current, pc>>
                     ELSE /\ visited_urls' = MarkVisited(current_url)
                          /\ since_last_request' =
                                 (domain :> 0) @@ Elapse(since_last_request, sleep_time)
                          /\ since_last_fetch' = Elapse(since_last_fetch, sleep_time)
                          /\ current' = Head(queue)
                          /\ pc' = "scrape"
    /\ last' = [kind |-> "none", outcome |-> "none"]
    /\ UNCHANGED <<config, scraped_data, requests, enqueued, seed_check,
                   rate_limited, main_done>>

(* scrape_url(current_url) and the handling of its result in crawl().       *)
ScrapeUrl ==
    /\ pc = "scrape"
    /\ \E outcome \in ScrapeOutcomes, dur \in Durations :
         LET url == current.url
             e == ExtractData(Self, url)
             data_ok == DataReturned(outcome, e.raised)
             took == dur + (IF outcome = "429" THEN delay * BackoffFactor ELSE 0)
         IN /\ requests' = Append(requests,
                   [kind |-> "scrape_url", url |-> url, depth |-> current.depth])
            /\ last' = [kind |-> "scrape_url", outcome |-> OutcomeClass(outcome)]
            /\ rate_limited' = IF outcome = "429" THEN rate_limited \cup {url}
                               ELSE rate_limited
            /\ since_last_fetch' = Elapse((Netloc(url) :> 0) @@ since_last_fetch, took)
            /\ since_last_request' = Elapse(since_last_request, took)
            /\ IF outcome = "ok" THEN Commit(e.s) ELSE UNCHANGED session
            /\ scraped_data' = IF data_ok THEN Append(scraped_data, e.data)
                               ELSE scraped_data
            /\ pc' = IF data_ok /\ BelowMaxDepth(current.depth) THEN "links"
                     ELSE "loop"
    /\ UNCHANGED <<config, visited_urls, queue, current, enqueued, seed_check,
                   main_done>>

(* get_links_from_page(current_url) and the enqueue loop of crawl().  An    *)
(* exception other than requests.RequestException leaves crawl().           *)
GetLinks ==
    /\ pc = "links"
    /\ \E outcome \in LinksOutcomes, dur \in Durations :
         LET url == current.url
             f == FilterLinks(Self, url, Page(url), 1, Len(Page(url)))
             links == IF outcome = "ok" THEN UniqueLinks(f.links, {}) ELSE <<>>
         IN /\ requests' = Append(requests,
                   [kind |-> "get_links_from_page", url |-> url,
                    depth |-> current.depth])
            /\ last' = [kind |-> "get_links_from_page",
                        outcome |-> OutcomeClass(outcome)]
            /\ since_last_fetch' = Elapse((Netloc(url) :> 0) @@ since_last_fetch, dur)
            /\ since_last_request' = Elapse(since_last_request, dur)
            /\ IF outcome = "ok" THEN Commit(f.s) ELSE UNCHANGED session
            /\ IF outcome = "exception" \/ (outcome = "ok" /\ f.raised)
               THEN /\ pc' = "raised"
                    /\ UNCHANGED <<queue, enqueued>>
               ELSE /\ pc' = "loop"
                    /\ queue' = Enqueue(queue, links, current.depth)
                    /\ enqueued' = enqueued \cup
                         { [url |-> queue'[i].url, depth |-> queue'[i].depth,
                            from |-> current] : i \in Len(queue) + 1 .. Len(queue') }
    /\ UNCHANGED <<config, visited_urls, scraped_data, current, seed_check,
                   rate_limited, main_done>>

(* The while loop ends on the empty queue.                                  *)
Complete ==
    /\ pc = "loop"
    /\ queue = <<>>
    /\ pc' = "completed"
    /\ UNCHANGED <<config, session, visited_urls, scraped_data, queue, clocks,
                   current, requests, enqueued, seed_check, last, rate_limited,
                   main_done>>

(* main() after crawl() has returned: with nothing scraped it reports       *)
(* whether the start URL may be fetched, which asks can_fetch when robots   *)
(* compliance is on; otherwise it saves the results.                        *)
MainReport ==
    /\ pc \in {"completed", "aborted"}
    /\ ~main_done
    /\ main_done' = TRUE
    /\ IF scraped_data = <<>> /\ respect_robots
       THEN Commit(CanFetch(Self, start_url).s)
       ELSE UNCHANGED session
    /\ UNCHANGED <<config, visited_urls, scraped_data, queue, clocks,
                   current, pc, requests, enqueued, seed_check, last,
                   rate_limited>>

Next == CrawlStart \/ Dequeue \/ ScrapeUrl \/ GetLinks \/ Complete \/ MainReport

Spec == Init /\ [][Next]_vars

----------------------------------------------------------------------------
(* What the claims speak about.                                             *)

(* The robots.txt that the domain of u serves disallows u for the           *)
(* configured user-agent.                                                   *)
RobotsDisallows(u) ==
    robots_net[Netloc(u)] = "200" /\ u.path \in RobotsTxt(Netloc(u)).disallow

PatternAllowed(u) ==
    ~Excluded(u) /\ (include_patterns = <<>> \/ Included(u))

Requested == {requests[i] : i \in 1..Len(requests)}
ScrapedUrls == {scraped_data[i].url : i \in 1..Len(scraped_data)}

(* C1: with robots compliance enabled, no page request (scrape_url or       *)
(* get_links_from_page) is made for a URL that the robots.txt of its domain *)
(* disallows, the seed included.                                            *)
C1_RobotsPrecedence ==
    respect_robots => \A r \in Requested : ~RobotsDisallows(r.url)

(* C2: every page request starts at least the domain's effective delay      *)
(* after the previous page request to the same domain started.  In the      *)
(* states "scrape" and "links" the request for current.url is about to      *)
(* start, and since_last_fetch is the time since the previous one started.  *)
C2_RateLimitLowerBound ==
    (pc \in {"scrape", "links"} /\ Netloc(current.url) \in DOMAIN since_last_fetch)
        => since_last_fetch[Netloc(current.url)] >= GetCrawlDelay(current.url)

(* C3: scraped_data holds at most one CrawlResult per canonical URL.        *)
C3_Dedup ==
    \A i, j \in 1..Len(scraped_data) :
        CleanUrl(scraped_data[i].url) = CleanUrl(scraped_data[j].url) => i = j

(* C4: no page request is made for an entry deeper than max_depth, every    *)
(* CrawlResult comes from a request at depth <= max_depth, and links are    *)
(* enqueued at depth + 1 only from pages with depth < max_depth.            *)
C4_DepthBound ==
    /\ \A r \in Requested : r.depth <= max_depth
    /\ \A u \in ScrapedUrls :
          \E r \in Requested :
              r.kind = "scrape_url" /\ r.url = u /\ r.depth <= max_depth
    /\ \A e \in enqueued :
          e.from.depth < max_depth /\ e.depth = e.from.depth + 1

C4_Witness ==
    /\ max_depth = 1
    /\ \E e \in enqueued : e.depth = 1
    /\ \E r \in Requested : r.kind = "scrape_url" /\ r.depth = max_depth
                            /\ r.url \in ScrapedUrls
    /\ pc = "completed"

C5_HopsBounded == max_external_hops <= external_links_depth
C5_Monotone ==
    /\ max_external_hops' >= max_external_hops
    /\ current_domains \subseteq current_domains'

(* C5: max_external_hops never decreases and never exceeds                  *)
(* external_links_depth, and current_domains never loses an element.        *)
C5_ScopeMonotonicity == [](C5_HopsBounded) /\ [][C5_Monotone]_vars

(* The budget is used up and a page linking to a further external domain    *)
(* has been processed after that.                                           *)
C5_Witness ==
    /\ external_links_depth > 0
    /\ max_external_hops = external_links_depth
    /\ Cardinality(current_domains) = 1 + external_links_depth
    /\ \E r \in Requested :
          r.kind = "get_links_from_page" /\ r.url = Url("b", "/", "", "")
    /\ "c" \notin current_domains

(* C6: every admission of an external domain (increment of                  *)
(* max_external_hops, addition to current_domains) is caused by a URL that  *)
(* robots.txt and the exclude/include patterns allow.                       *)
C6_HopsOnlyForValidUrls ==
    \A h \in hop_log :
        PatternAllowed(h.url) /\ (respect_robots => ~RobotsDisallows(h.url))

(* C7: the robots.txt of a domain is requested at most once per session,    *)
(* whatever the first request returned.                                     *)
C7_RobotsFetchedOnce == \A d \in Domains : robots_requests[d] <= 1

(* A domain whose robots.txt request failed has been checked from two       *)
(* pages.                                                                   *)
C7_Witness ==
    /\ \E d \in Domains :
          /\ robots_net[d] # "200"
          /\ robots_requests[d] = 1
          /\ robots_cache[d] = "None"
          /\ Cardinality({r \in Requested :
                 /\ r.kind = "get_links_from_page"
                 /\ \E i \in 1..Len(Page(r.url)) :
                       Page(r.url)[i] # MalformedHref
                       /\ Netloc(UrlJoin(r.url, Page(r.url)[i])) = d}) >= 2

(* C8: every URL that crawl() requests, the seed included, is allowed by    *)
(* robots.txt, matches no exclude pattern, matches an include pattern when  *)
(* include patterns are configured, and is in scope.                        *)
C8_AdmissionAtDequeue ==
    \A r \in Requested :
        /\ respect_robots => ~RobotsDisallows(r.url)
        /\ PatternAllowed(r.url)
        /\ Netloc(r.url) \in current_domains

(* C9: when robots compliance is enabled and the start URL is disallowed,   *)
(* crawl() ends aborted: no queue, visited_urls and scraped_data empty, no  *)
(* page request.                                                            *)
C9_SeedAbort ==
    (respect_robots /\ RobotsDisallows(start_url) /\ pc # "start")
        => /\ pc = "aborted"
           /\ queue = <<>>
           /\ visited_urls = {}
           /\ scraped_data = <<>>
           /\ requests = <<>>

(* C10: no exception raised while a page is processed leaves the while      *)
(* loop of crawl().                                                         *)
C10_PageFaultIsolation == pc # "raised"

(* A scrape_url step: the request for current.url is sent and answered.     *)
ScrapeStep == pc = "scrape" /\ Len(requests') = Len(requests) + 1

C11_NoResultOn429 ==
    \A u \in rate_limited :
        /\ u \notin ScrapedUrls
        /\ \A r \in Requested : r.kind = "get_links_from_page" => r.url # u
        /\ \A e \in enqueued : e.from.url # u
C11_Step ==
    (ScrapeStep /\ last'.outcome = "429")
        => /\ scraped_data' = scraped_data
           /\ queue' = queue
           /\ visited_urls' = visited_urls
           /\ pc' = "loop"

(* C11: a URL whose scrape request was answered with HTTP 429 gets no       *)
(* CrawlResult, no get_links_from_page request and no link enqueued from    *)
(* it; the step leaves the queue as it was and returns to the loop, which   *)
(* goes on with the remaining entries.                                      *)
C11_RateLimitedSkipped == [](C11_NoResultOn429) /\ [][C11_Step]_vars

(* A URL was answered with 429 and a URL dequeued after it was scraped.     *)
C11_Witness ==
    \E i, j \in 1..Len(requests) :
        /\ i < j
        /\ requests[i].url \in rate_limited
        /\ requests[j].kind = "scrape_url"
        /\ requests[j].url \in ScrapedUrls

(* The first n elements of a sequence, as a set.                            *)
FirstOf(seq, n) == {seq[i] : i \in 1..(IF n < Len(seq) THEN n ELSE Len(seq))}

AdmittedExternal == current_domains \ {Netloc(start_url)}

C12_FirstDiscovered ==
    AdmittedExternal =
        IF allow_exit THEN FirstOf(discovered, external_links_depth) ELSE {}

(* The scenario: one hop allowed, and a parsed page that links to domain b  *)
(* and then to domain c.                                                    *)
C12_Scenario ==
    (allow_exit /\ external_links_depth = 1
        /\ Url("a", "/", "", "") \in ScrapedUrls)
    => /\ AdmittedExternal = {"b"}
       /\ \A r \in Requested : Netloc(r.url) # "c"
       /\ \A e \in enqueued : Netloc(e.url) # "c"
       /\ \A i \in 1..Len(queue) : Netloc(queue[i].url) # "c"

(* C12: the admitted external domains are the first external_links_depth    *)
(* distinct external domains in the order in which they were discovered     *)
(* (first handed to the scope guard); with one hop and a page linking to b  *)
(* and then c, b is admitted and no URL of c is ever enqueued or requested. *)
C12_AdmissionOrder == C12_FirstDiscovered /\ C12_Scenario

(* Both domains were discovered, one hop was allowed, the crawl went on     *)
(* into b and finished.                                                     *)
C12_Witness ==
    /\ allow_exit /\ external_links_depth = 1
    /\ discovered = <<"b", "c">>
    /\ Url("a", "/", "", "") \in ScrapedUrls
    /\ Url("b", "/", "", "") \in ScrapedUrls
    /\ pc = "completed"

(* The crawl-delay the crawler has been served for domain d: the one the    *)
(* domain's robots.txt declares, when robots compliance is on and the file  *)
(* is served; 0 for none.                                                   *)
DeclaredCrawlDelay(d) ==
    IF respect_robots /\ robots_net[d] = "200" THEN RobotsTxt(d).crawl_delay ELSE 0

Max(x, y) == IF x >= y THEN x ELSE y

(* C13: whenever the rate limiter of crawl() spaces a fetch from an earlier *)
(* request to the same domain, the delay it uses is max(delay, c) for a     *)
(* domain that declares crawl-delay c and delay for a domain that declares  *)
(* none.  In state "scrape" the limiter has just run for current.url.       *)
C13_EffectiveDelay ==
    (pc = "scrape" /\ Netloc(current.url) \in DOMAIN since_last_fetch)
    => GetCrawlDelay(current.url) =
           IF DeclaredCrawlDelay(Netloc(current.url)) # 0
           THEN Max(delay, DeclaredCrawlDelay(Netloc(current.url)))
           ELSE delay

(* The limiter ran for a second fetch on a domain declaring a crawl-delay   *)
(* that is smaller than the configured delay.                               *)
C13_Witness ==
    /\ pc = "scrape" /\ Netloc(current.url) \in DOMAIN since_last_fetch
    /\ DeclaredCrawlDelay(Netloc(current.url)) = 2
    /\ delay = 3

(* The canonical URLs the page at url links to.                             *)
LinkedFrom(url) ==
    { CleanUrl(UrlJoin(url, Page(url)[i])) :
        i \in {j \in 1..Len(Page(url)) : Page(url)[j] # MalformedHref} }

(* The entries a step appended to the queue.                                *)
Appended == SubSeq(queue', Len(queue) + 1, Len(queue'))

(* A get_links_from_page step that parsed the page and returned its links.  *)
LinksStep == pc = "links" /\ pc' = "loop" /\ last'.outcome = "ok"

C14_Step ==
    LinksStep =>
        /\ SubSeq(queue', 1, Len(queue)) = queue
        /\ \A i \in 1..Len(Appended) :
              /\ Appended[i].depth = current.depth + 1
              /\ ~Excluded(Appended[i].url)
              /\ \A j \in 1..Len(Appended) :
                    Appended[j].url = Appended[i].url => i = j
        /\ {Appended[i].url : i \in 1..Len(Appended)} =
              { u \in LinkedFrom(current.url) :
                  /\ u # current.url
                  /\ PatternAllowed(u)
                  /\ ~(respect_robots /\ RobotsDisallows(u))
                  /\ Netloc(u) \in current_domains'
                  /\ u \notin visited_urls }

(* C14: of the links of a page fetched at depth d < max_depth, a link whose *)
(* canonical URL matches an exclude pattern is never appended to the queue, *)
(* and every other admitted, in-scope, not yet visited link is appended     *)
(* exactly once, at depth d + 1.                                            *)
C14_FilteredEnqueue == [][C14_Step]_vars

(* The scenario: /login excluded, max_depth 1, and the seed page, which     *)
(* links to /about twice and to /login, has had its links enqueued.         *)
C14_Witness ==
    /\ exclude_patterns = <<"/login">> /\ max_depth = 1
    /\ start_url = Url("a", "/", "", "")
    /\ \E e \in enqueued : e.url = Url("a", "/about", "", "") /\ e.depth = 1
                            /\ e.from.url = start_url
    /\ \A e \in enqueued : e.url.path # "/login"

C15_Consistent ==
    /\ ScrapedUrls \subseteq visited_urls
    /\ Len(scraped_data) <= Cardinality(visited_urls)
C15_AppendOnly ==
    /\ Len(scraped_data') >= Len(scraped_data)
    /\ SubSeq(scraped_data', 1, Len(scraped_data)) = scraped_data

(* C15: in every state of crawl(), so wherever an interruption stops it,    *)
(* every scraped URL is in visited_urls, scraped_data is no longer than     *)
(* visited_urls is large, and every step only appends to scraped_data.      *)
C15_InterruptionConsistency == [](C15_Consistent) /\ [][C15_AppendOnly]_vars

(* Between the marking of a URL and its fetch, with results already         *)
(* recorded and an earlier URL visited without a result.                    *)
C15_Witness ==
    /\ pc = "scrape"
    /\ Len(scraped_data) >= 2
    /\ Cardinality(visited_urls) > Len(scraped_data) + 1

(* crawl() has returned or raised: no step of it is left to take.           *)
Stopped == pc \notin {"start", "loop", "scrape", "links"}

(* C16: crawl() stops only with the queue emptied and the completed outcome *)
(* reached (or with the seed refused before the loop): a run that has       *)
(* stopped elsewhere never reaches the completed outcome.                   *)
C16_Termination == Stopped => pc \in {"completed", "aborted"}

(* The page at url holds an anchor that urljoin rejects.                    *)
HasMalformedLink(url) == \E i \in 1..Len(Page(url)) : Page(url)[i] = MalformedHref

(* C17: a page that holds a malformed link among well-formed ones and is    *)
(* answered with 200 and HTML still gets its CrawlResult appended.          *)
C17_MalformedLinkIsolation ==
    (last.kind = "scrape_url" /\ last.outcome = "ok"
        /\ HasMalformedLink(current.url))
    => current.url \in ScrapedUrls

C18_OnlyAfterSuccess ==
    /\ \A i \in 1..Len(requests) :
          requests[i].kind = "get_links_from_page"
          => /\ requests[i].url \in ScrapedUrls
             /\ requests[i].depth < max_depth
             /\ i > 1
             /\ requests[i - 1] = [requests[i] EXCEPT !.kind = "scrape_url"]
    /\ pc = "links"
          => /\ last = [kind |-> "scrape_url", outcome |-> "ok"]
             /\ scraped_data # <<>>
             /\ scraped_data[Len(scraped_data)].url = current.url
             /\ current.depth < max_depth
    /\ \A e \in enqueued :
          e.from.url \in ScrapedUrls /\ e.from.depth < max_depth
C18_Step ==
    (ScrapeStep /\ (last'.outcome # "ok" \/ current.depth >= max_depth))
        => pc' = "loop" /\ queue' = queue /\ enqueued' = enqueued

(* C18: get_links_from_page is requested for a URL only right after that    *)
(* URL's scrape was answered with 200 and HTML and its CrawlResult was      *)
(* appended, and only at depth < max_depth; after a failed fetch, a 429, a  *)
(* non-HTML answer or at depth = max_depth the loop goes on with no link    *)
(* extraction and nothing enqueued.                                         *)
C18_LinkExtractionGating == [](C18_OnlyAfterSuccess) /\ [][C18_Step]_vars

(* Links were extracted from one page, and a later page below max_depth     *)
(* was answered with a non-HTML content type and skipped.                   *)
C18_Witness ==
    /\ \E r \in Requested : r.kind = "get_links_from_page"
    /\ enqueued # {}
    /\ last = [kind |-> "scrape_url", outcome |-> "non_html"]
    /\ current.depth < max_depth
    /\ pc = "loop"

(* URLs to call the guards on: every path of the web on every domain.       *)
ProbeUrls == { Url(d, p, "", "") : d \in Domains, p \in {"/", "/about", "/login", "/x"} }

C19_Calls ==
    \A u \in ProbeUrls :
        LET r == IsSameDomain(Self, u, "probe")
            again == IsSameDomain(r.s, u, "probe")
            same(t) == /\ t.max_external_hops = max_external_hops
                       /\ t.current_domains = current_domains
        IN /\ (Netloc(u) = Netloc(start_url)
                  \/ (allow_exit /\ Netloc(u) \in current_domains))
               => r.ret /\ same(r.s)
           /\ ~same(r.s)
               => /\ r.ret
                  /\ Netloc(u) \notin current_domains
                  /\ r.s.max_external_hops = max_external_hops + 1
                  /\ r.s.current_domains = current_domains \cup {Netloc(u)}
           /\ r.ret
               => /\ again.ret
                  /\ again.s.max_external_hops = r.s.max_external_hops
                  /\ again.s.current_domains = r.s.current_domains
C19_Steps ==
    max_external_hops' - max_external_hops =
        Cardinality(current_domains' \ current_domains)

(* C19: is_same_domain on a URL of the start domain or of an admitted       *)
(* external domain returns true and leaves max_external_hops and            *)
(* current_domains as they are, exhausted budget or not; they change only   *)
(* with the admission of a new external domain, by one hop and that domain, *)
(* and a repeated call changes nothing more.                                *)
C19_ScopeGuardIdempotence == [](C19_Calls) /\ [][C19_Steps]_vars

(* The budget is used up by b, and a URL of b passed the guard again at     *)
(* its dequeue and was requested.                                           *)
C19_Witness ==
    /\ allow_exit /\ external_links_depth = 1 /\ max_external_hops = 1
    /\ "b" \in current_domains
    /\ \E r \in Requested : Netloc(r.url) = "b"

(* f and g agree outside domain d.                                          *)
SameExcept(f, g, d) ==
    /\ DOMAIN f \ {d} = DOMAIN g \ {d}
    /\ \A x \in DOMAIN f \ {d} : f[x] = g[x]

BudgetKept(t) ==
    /\ t.max_external_hops = max_external_hops
    /\ t.current_domains = current_domains

(* C20 as stated: the admission decision for a link of the page being       *)
(* processed changes nothing but the hop budget, and that only when the     *)
(* link is admitted; robots_cache and domain_delays in particular stay as   *)
(* they are.                                                                *)
C20_AdmissionFrame ==
    pc = "links" =>
        \A u \in LinkedFrom(current.url) :
            LET r == Admit(Self, u, "get_links_from_page")
            IN /\ r.s.robots_cache = robots_cache
               /\ r.s.domain_delays = domain_delays
               /\ ~r.ret => BudgetKept(r.s)

C20_Calls ==
    \A u \in ProbeUrls :
        LET r == Admit(Self, u, "probe")
        IN /\ SameExcept(r.s.robots_cache, robots_cache, Netloc(u))
           /\ SameExcept(r.s.domain_delays, domain_delays, Netloc(u))
           /\ Netloc(u) \in DOMAIN robots_cache
               => /\ r.s.robots_cache = robots_cache
                  /\ r.s.domain_delays = domain_delays
           /\ ~r.ret => BudgetKept(r.s)
C20_Steps ==
    pc = "links"
    => /\ visited_urls' = visited_urls
       /\ scraped_data' = scraped_data
       /\ \A d \in DOMAIN robots_cache' \ DOMAIN robots_cache :
             \E u \in LinkedFrom(current.url) : Netloc(u) = d

(* C20, amended: the admission decision for a URL changes the hop budget    *)
(* only when the URL is admitted, and changes nothing else except that the  *)
(* first decision for a domain stores that domain's robots.txt result in    *)
(* robots_cache and its crawl-delay in domain_delays, for an admitted and   *)
(* for a rejected URL alike.                                                *)
C20_AdmissionFrameAmended == [](C20_Calls) /\ [][C20_Steps]_vars

(* The robots.txt of c was loaded for a link that was then rejected: c is   *)
(* in the cache and was never admitted.                                     *)
C20_Witness ==
    /\ "c" \in DOMAIN robots_cache
    /\ "c" \notin current_domains
    /\ \E r \in Requested : r.kind = "get_links_from_page"

(* C21: the start domain is always in current_domains, and the hop counter  *)
(* equals the number of admitted external domains:                          *)
(* len(current_domains) = 1 + max_external_hops.                            *)
C21_HopCounterMatchesDomains ==
    /\ Netloc(start_url) \in current_domains
    /\ Cardinality(current_domains) = 1 + max_external_hops

(* An external domain was admitted, crawled into, and a further external    *)
(* domain was turned away afterwards.                                       *)
C21_Witness ==
    /\ max_external_hops = 1
    /\ Cardinality(current_domains) = 2
    /\ Len(discovered) = 2
    /\ \E r \in Requested : Netloc(r.url) # Netloc(start_url)

(* The queue entries that are discovered links: the seed is the only entry  *)
(* of depth 0.                                                              *)
DiscoveredLink(e) == e.depth >= 1

(* An iteration of the while loop takes the head of the queue.              *)
DequeueStep == pc = "loop" /\ queue # <<>> /\ queue' = Tail(queue)

C22_Entries ==
    \A i \in 1..Len(queue) :
        DiscoveredLink(queue[i])
        => /\ queue[i].depth <= max_depth
           /\ Netloc(queue[i].url) \in current_domains
           /\ PatternAllowed(queue[i].url)
           /\ ~(respect_robots /\ RobotsDisallows(queue[i].url))
C22_Step ==
    (DequeueStep /\ DiscoveredLink(Head(queue)))
    => /\ ~DepthExceeded(Head(queue).depth)
       /\ IsSameDomain(Self, Head(queue).url, "crawl").ret
       /\ current_domains' = current_domains
       /\ max_external_hops' = max_external_hops
       /\ pc' = "loop" <=> Head(queue).url \in visited_urls

(* C22: every queue entry other than the seed has a depth in 1..max_depth,  *)
(* a domain in current_domains and a URL that passes the robots and pattern *)
(* checks; so the depth test and the scope test at dequeue never reject a   *)
(* discovered link, and such a link is skipped there only when it is        *)
(* already visited.                                                         *)
C22_QueueEntriesAdmitted == [](C22_Entries) /\ [][C22_Step]_vars

(* The queue holds a link into an admitted external domain at depth         *)
(* max_depth, and a link that has been visited since it was enqueued.       *)
C22_Witness ==
    /\ pc = "loop"
    /\ \E i \in 1..Len(queue) :
          queue[i].depth = max_depth /\ Netloc(queue[i].url) # Netloc(start_url)
    /\ \E i \in 1..Len(queue) :
          DiscoveredLink(queue[i]) /\ queue[i].url \in visited_urls

C23_QueueOrdered ==
    /\ \A i, j \in 1..Len(queue) : i <= j => queue[i].depth <= queue[j].depth
    /\ queue # <<>> => queue[Len(queue)].depth <= queue[1].depth + 1
    /\ pc \in {"scrape", "links"}
          => \A i \in 1..Len(queue) :
                queue[i].depth \in {current.depth, current.depth + 1}
    /\ \A i, j \in 1..Len(requests) :
          i <= j => requests[i].depth <= requests[j].depth
C23_Step ==
    DequeueStep
    => \A i \in 1..Len(queue') : queue'[i].depth >= Head(queue).depth

(* C23: the queue is ordered by depth and holds at most two depths d and    *)
(* d + 1, the entries of depth d first; the entries are dequeued, and the   *)
(* pages fetched, in non-decreasing depth.                                  *)
C23_BreadthFirstOrder == [](C23_QueueOrdered) /\ [][C23_Step]_vars

(* The queue holds links of depth 1 ahead of links of depth 2, pages of     *)
(* depth 0 and 1 having been fetched.                                       *)
C23_Witness ==
    /\ Len(queue) >= 2
    /\ queue[1].depth = 1
    /\ queue[Len(queue)].depth = 2
    /\ \E r \in Requested : r.depth = 1

(* The scrape_url calls made so far, as positions of the request log.       *)
ScrapeCalls == {i \in 1..Len(requests) : requests[i].kind = "scrape_url"}

(* C24 as stated: the number of scrape_url calls always equals              *)
(* len(visited_urls).                                                       *)
C24_CallsEqualVisited == Cardinality(ScrapeCalls) = Cardinality(visited_urls)

C24_Once ==
    /\ \A i, j \in ScrapeCalls : requests[i].url = requests[j].url => i = j
    /\ \A i \in ScrapeCalls : requests[i].url \in visited_urls
    /\ rate_limited \subseteq visited_urls
    /\ Cardinality(ScrapeCalls) =
          Cardinality(visited_urls) - (IF pc = "scrape" THEN 1 ELSE 0)
C24_Step ==
    /\ visited_urls \subseteq visited_urls'
    /\ ScrapeStep => \A i \in ScrapeCalls : requests[i].url # current.url

(* C24, amended: a URL is passed to scrape_url at most once; a URL whose    *)
(* fetch failed stays in visited_urls and is never fetched again, however   *)
(* often it is rediscovered; the number of scrape_url calls equals          *)
(* len(visited_urls) between iterations of the loop and is one less from    *)
(* the marking of the dequeued URL to its scrape_url call.                  *)
C24_NoRetry == [](C24_Once) /\ [][C24_Step]_vars

(* A URL answered with 429 had been enqueued from two pages; the crawl      *)
(* finished with one scrape_url call for it and no result.                  *)
C24_Witness ==
    /\ pc = "completed"
    /\ \E u \in rate_limited :
          /\ \E e1, e2 \in enqueued : e1.url = u /\ e2.url = u /\ e1.from # e2.from
          /\ Cardinality({i \in ScrapeCalls : requests[i].url = u}) = 1
          /\ u \notin ScrapedUrls

====
